---- MODULE Spec2Model ----
\* Model of src/minesweeper.py: the Minesweeper board (mine set and
\* nearby_mines), the Sentence class and the MinesweeperAI knowledge base
\* with add_knowledge (and its deductive-closure loop), mark_mine, mark_safe,
\* make_safe_move and make_random_move.
EXTENDS Integers, Sequences, FiniteSets, TLC

\* ---------------------------------------------------------------- bounds
MaxH == 2
MaxW == 3
MaxMines == 2
MaxCount == 2
MaxOps == 3
MaxObs == 4

\* ---------------------------------------------------------------- state
VARIABLES
  height,      \* MinesweeperAI.height / Minesweeper.height
  width,       \* MinesweeperAI.width / Minesweeper.width
  board,       \* Minesweeper.mines: the cells that hold a mine
  moves_made,  \* MinesweeperAI.moves_made
  mines,       \* MinesweeperAI.mines
  safes,       \* MinesweeperAI.safes
  knowledge,   \* MinesweeperAI.knowledge: list of sentences
  pc,          \* "idle" between calls, "closure" inside add_knowledge's while loop
  rounds,      \* iterations of the while loop started in the current add_knowledge
  at_closure,  \* the list knowledge as it was when the while loop was entered
  lastOp,      \* the method called last
  ret,         \* value returned by the last call (None for the mutating methods)
  nOps,        \* number of mutating calls made so far
  args,        \* arguments of the last mutating call: <<cell, count>> or <<cell>>
  truthful     \* every fact the caller has told the agent so far is true of board

vars == <<height, width, board, moves_made, mines, safes, knowledge,
          pc, rounds, at_closure, lastOp, ret, nOps, args, truthful>>

None == <<>>

Cells(h, w) == (0 .. h - 1) \X (0 .. w - 1)

\* the 3x3 block range(cell[0]-1, cell[0]+2) x range(cell[1]-1, cell[1]+2)
Block(cell) == (cell[1] - 1 .. cell[1] + 1) \X (cell[2] - 1 .. cell[2] + 1)

InBounds(c, h, w) == 0 <= c[1] /\ c[1] < h /\ 0 <= c[2] /\ c[2] < w

\* ---------------------------------------------------------------- Minesweeper
nearby_mines(b, h, w, cell) ==
  Cardinality({c \in Block(cell) : c # cell /\ InBounds(c, h, w) /\ c \in b})

\* ---------------------------------------------------------------- Sentence
Sentence(cells, count) == [cells |-> cells, count |-> count]

known_mines_any_size(s) ==
  IF s.count # 0 THEN s.cells ELSE {}

known_mines(s) ==
  IF Cardinality(s.cells) = s.count /\ s.count # 0 THEN s.cells ELSE {}

known_safes(s) ==
  IF s.count = 0 THEN s.cells ELSE {}

sentence_mark_mine_always(s, cell) ==
  Sentence(s.cells \ {cell}, s.count - 1)

sentence_mark_mine(s, cell) ==
  IF cell \in s.cells THEN Sentence(s.cells \ {cell}, s.count - 1) ELSE s

sentence_mark_safe_noop(s, cell) ==
  s

sentence_mark_safe_dec(s, cell) ==
  IF cell \in s.cells THEN Sentence(s.cells \ {cell}, s.count - 1) ELSE s

sentence_mark_safe(s, cell) ==
  IF cell \in s.cells THEN Sentence(s.cells \ {cell}, s.count) ELSE s

\* ---------------------------------------------------------------- MinesweeperAI
\* A knowledge base value: [mines, safes, knowledge].
KB(m, s, k) == [mines |-> m, safes |-> s, knowledge |-> k]

mark_mine_unsafe(kb, cell) ==
  KB(kb.mines \cup {cell}, kb.safes \ {cell},
     [i \in 1 .. Len(kb.knowledge) |-> sentence_mark_mine(kb.knowledge[i], cell)])

mark_mine(kb, cell) ==
  KB(kb.mines \cup {cell}, kb.safes,
     [i \in 1 .. Len(kb.knowledge) |-> sentence_mark_mine(kb.knowledge[i], cell)])

mark_safe_sentences_only(kb, cell) ==
  KB(kb.mines, kb.safes,
     [i \in 1 .. Len(kb.knowledge) |-> sentence_mark_safe(kb.knowledge[i], cell)])

mark_safe(kb, cell) ==
  KB(kb.mines, kb.safes \cup {cell},
     [i \in 1 .. Len(kb.knowledge) |-> sentence_mark_safe(kb.knowledge[i], cell)])

\* for safe in new_safes: self.mark_safe(safe)
RECURSIVE MarkSafes(_, _)
MarkSafes(kb, S) ==
  IF S = {} THEN kb
  ELSE LET c == CHOOSE x \in S : TRUE
       IN  MarkSafes(mark_safe(kb, c), S \ {c})

\* for mine in new_mines: self.mark_mine(mine)
RECURSIVE MarkMines(_, _)
MarkMines(kb, S) ==
  IF S = {} THEN kb
  ELSE LET c == CHOOSE x \in S : TRUE
       IN  MarkMines(mark_mine(kb, c), S \ {c})

\* the sentence add_knowledge builds from the neighbours of cell
NewSentence_all_neighbours(cell, count, kb, h, w) ==
  LET mine_count == Cardinality({c \in Block(cell) : c \in kb.mines})
      unexplored_neighbours ==
        {c \in Block(cell) : InBounds(c, h, w) /\ c \notin kb.mines}
  IN  Sentence(unexplored_neighbours, count - mine_count)

NewSentence_raw_count(cell, count, kb, h, w) ==
  LET unexplored_neighbours ==
        {c \in Block(cell) :
           InBounds(c, h, w) /\ c \notin kb.safes /\ c \notin kb.mines}
  IN  Sentence(unexplored_neighbours, count)

NewSentence(cell, count, kb, h, w) ==
  LET mine_count == Cardinality({c \in Block(cell) : c \in kb.mines})
      unexplored_neighbours ==
        {c \in Block(cell) :
           InBounds(c, h, w) /\ c \notin kb.safes /\ c \notin kb.mines}
  IN  Sentence(unexplored_neighbours, count - mine_count)

InKnowledge(s, kn) == \E i \in 1 .. Len(kn) : kn[i] = s

\* the nested loop leaving at its first inferred sentence
RECURSIVE Inferred_first_only(_, _)
Inferred_first_only(kn, k) ==
  LET n == Len(kn)
  IN  IF k >= n * n THEN <<>>
      ELSE LET sentence1 == kn[(k \div n) + 1]
               sentence2 == kn[(k % n) + 1]
               inferred_sentence ==
                 Sentence(sentence1.cells \ sentence2.cells,
                          sentence1.count - sentence2.count)
           IN  IF /\ sentence1 # sentence2
                  /\ sentence2.cells \subseteq sentence1.cells
                  /\ ~InKnowledge(inferred_sentence, kn)
               THEN <<inferred_sentence>>
               ELSE Inferred_first_only(kn, k + 1)

\* new_knowledge: the nested loop over (sentence1, sentence2), in list order
RECURSIVE Inferred(_, _)
Inferred(kn, k) ==
  LET n == Len(kn)
  IN  IF k >= n * n THEN <<>>
      ELSE LET sentence1 == kn[(k \div n) + 1]
               sentence2 == kn[(k % n) + 1]
               inferred_sentence ==
                 Sentence(sentence1.cells \ sentence2.cells,
                          sentence1.count - sentence2.count)
           IN  IF /\ sentence1 # sentence2
                  /\ sentence2.cells \subseteq sentence1.cells
                  /\ ~InKnowledge(inferred_sentence, kn)
               THEN <<inferred_sentence>> \o Inferred(kn, k + 1)
               ELSE Inferred(kn, k + 1)

\* new_safes / new_mines: the union over every sentence of knowledge
new_safes_of(kn) == UNION {known_safes(kn[i]) : i \in 1 .. Len(kn)}

new_mines_of(kn) == UNION {known_mines(kn[i]) : i \in 1 .. Len(kn)}

\* if not new_safes and not new_mines: break
loop_exit_safes_only(kn) == new_safes_of(kn) = {}

loop_exit(kn) == new_safes_of(kn) = {} /\ new_mines_of(kn) = {}

\* the body of one iteration of the while loop that does not break
RoundBody(kb) ==
  LET marked == MarkMines(MarkSafes(kb, new_safes_of(kb.knowledge)),
                          new_mines_of(kb.knowledge))
  IN  KB(marked.mines, marked.safes,
         marked.knowledge \o Inferred(marked.knowledge, 0))

\* the whole while loop, run from kb to its exit
RECURSIVE Closure(_)
Closure(kb) ==
  IF loop_exit(kb.knowledge) THEN kb ELSE Closure(RoundBody(kb))

\* ------------------------------------------------- traversal orders
\* new_safes and new_mines are Python sets and knowledge is a list: an
\* iteration visits the elements once each, in an order the set decides.
\* Orders(S) is every order in which the elements of S can be visited.
Orders(S) ==
  {f \in [1 .. Cardinality(S) -> S] :
     \A i, j \in 1 .. Cardinality(S) : f[i] = f[j] => i = j}

\* for safe in new_safes: self.mark_safe(safe), visiting in the given order
RECURSIVE MarkSafesIn(_, _)
MarkSafesIn(kb, order) ==
  IF order = <<>> THEN kb
  ELSE MarkSafesIn(mark_safe(kb, Head(order)), Tail(order))

\* for mine in new_mines: self.mark_mine(mine), visiting in the given order
RECURSIVE MarkMinesIn(_, _)
MarkMinesIn(kb, order) ==
  IF order = <<>> THEN kb
  ELSE MarkMinesIn(mark_mine(kb, Head(order)), Tail(order))

\* new_knowledge when both loops over the sentences visit them in the
\* order p (a sequence of indices into kn)
InferredIn(kn, p) == Inferred([i \in 1 .. Len(kn) |-> kn[p[i]]], 0)

\* one iteration of the while loop that does not break, with the order of
\* each of its traversals given
RoundBodyIn(kb, safeOrder, mineOrder, p) ==
  LET marked == MarkMinesIn(MarkSafesIn(kb, safeOrder), mineOrder)
  IN  KB(marked.mines, marked.safes,
         marked.knowledge \o InferredIn(marked.knowledge, p))

\* every state one iteration can leave, over all orders of its traversals
RoundResults(kb) ==
  {RoundBodyIn(kb, so, mo, p) :
     so \in Orders(new_safes_of(kb.knowledge)),
     mo \in Orders(new_mines_of(kb.knowledge)),
     p \in Orders(1 .. Len(kb.knowledge))}

\* every state the while loop can exit with when it is entered in one of
\* the states K, over all orders of the traversals of every iteration
RECURSIVE LoopResults(_)
LoopResults(K) ==
  IF K = {} THEN {}
  ELSE LET done == {kb \in K : loop_exit(kb.knowledge)}
       IN  done \cup LoopResults(UNION {RoundResults(kb) : kb \in K \ done})

\* ---------------------------------------------------------------- Init
Init ==
  /\ height \in 1 .. MaxH
  /\ width \in 1 .. MaxW
  /\ board = {}
  /\ moves_made = {}
  /\ mines = {}
  /\ safes = {}
  /\ knowledge = <<>>
  /\ pc = "idle"
  /\ rounds = 0
  /\ at_closure = <<>>
  /\ lastOp = "init"
  /\ ret = None
  /\ nOps = 0
  /\ args = <<>>
  /\ truthful = TRUE

\* a game whose board holds mines: Minesweeper.__init__ places them at random
InitGame ==
  /\ height \in 1 .. MaxH
  /\ width \in 1 .. MaxW
  /\ board \in {b \in SUBSET Cells(height, width) : Cardinality(b) <= MaxMines}
  /\ moves_made = {}
  /\ mines = {}
  /\ safes = {}
  /\ knowledge = <<>>
  /\ pc = "idle"
  /\ rounds = 0
  /\ at_closure = <<>>
  /\ lastOp = "init"
  /\ ret = None
  /\ nOps = 0
  /\ args = <<>>
  /\ truthful = TRUE

\* ---------------------------------------------------------------- actions
\* add_knowledge up to the entry of the while loop
AddKnowledge(cell, count) ==
  /\ pc = "idle"
  /\ LET kb1 == mark_safe(KB(mines, safes, knowledge), cell)
         new_sentence == NewSentence(cell, count, kb1, height, width)
     IN  /\ moves_made' = moves_made \cup {cell}
         /\ mines' = kb1.mines
         /\ safes' = kb1.safes
         /\ knowledge' = Append(kb1.knowledge, new_sentence)
         /\ at_closure' = Append(kb1.knowledge, new_sentence)
  /\ pc' = "closure"
  /\ rounds' = 0
  /\ lastOp' = "add_knowledge"
  /\ nOps' = nOps + 1
  /\ args' = <<cell, count>>
  /\ ret' = None
  /\ truthful' = (/\ truthful
                  /\ cell \notin board
                  /\ count = nearby_mines(board, height, width, cell))
  /\ UNCHANGED <<height, width, board>>

\* one iteration of the while loop
ClosureRound ==
  /\ pc = "closure"
  /\ rounds' = rounds + 1
  /\ IF loop_exit(knowledge)
     THEN /\ pc' = "idle"
          /\ UNCHANGED <<mines, safes, knowledge>>
     ELSE LET kb1 == RoundBody(KB(mines, safes, knowledge))
          IN  /\ mines' = kb1.mines
              /\ safes' = kb1.safes
              /\ knowledge' = kb1.knowledge
              /\ pc' = "closure"
  /\ UNCHANGED <<height, width, board, moves_made, at_closure, lastOp, ret, nOps,
                 args, truthful>>

\* add_knowledge with any in-bounds cell and any count
Observe ==
  \E cell \in Cells(height, width), count \in 0 .. MaxCount :
    /\ nOps < MaxOps
    /\ AddKnowledge(cell, count)

\* add_knowledge as the game calls it: a cell that is not a mine, with
\* the count Minesweeper.nearby_mines reports
ObserveTruthful ==
  \E cell \in Cells(height, width) :
    /\ nOps < MaxObs
    /\ cell \notin board
    /\ AddKnowledge(cell, nearby_mines(board, height, width, cell))

MarkMine ==
  \E cell \in Cells(height, width) :
    /\ pc = "idle"
    /\ nOps < MaxOps
    /\ LET kb1 == mark_mine(KB(mines, safes, knowledge), cell)
       IN  /\ mines' = kb1.mines
           /\ safes' = kb1.safes
           /\ knowledge' = kb1.knowledge
    /\ lastOp' = "mark_mine"
    /\ nOps' = nOps + 1
    /\ args' = <<cell>>
    /\ ret' = None
    /\ truthful' = (truthful /\ cell \in board)
    /\ UNCHANGED <<height, width, board, moves_made, pc, rounds, at_closure>>

MarkSafe ==
  \E cell \in Cells(height, width) :
    /\ pc = "idle"
    /\ nOps < MaxOps
    /\ LET kb1 == mark_safe(KB(mines, safes, knowledge), cell)
       IN  /\ mines' = kb1.mines
           /\ safes' = kb1.safes
           /\ knowledge' = kb1.knowledge
    /\ lastOp' = "mark_safe"
    /\ nOps' = nOps + 1
    /\ args' = <<cell>>
    /\ ret' = None
    /\ truthful' = (truthful /\ cell \notin board)
    /\ UNCHANGED <<height, width, board, moves_made, pc, rounds, at_closure>>

\* the value make_safe_move returns: the first cell of the iteration over
\* safes that is not in moves_made (the iteration order of a set is any order)
safe_move_any_safe(sf, mm) ==
  IF sf = {} THEN {None} ELSE sf

safe_move(sf, mm) ==
  IF \A cell \in sf : cell \in mm THEN {None}
  ELSE {cell \in sf : cell \notin mm}

MakeSafeMove_recording ==
  /\ pc = "idle"
  /\ ret' \in safe_move(safes, moves_made)
  /\ moves_made' = moves_made \cup ({ret'} \ {None})
  /\ lastOp' = "make_safe_move"
  /\ UNCHANGED <<height, width, board, mines, safes, knowledge,
                 pc, rounds, at_closure, nOps, args, truthful>>

MakeSafeMove ==
  /\ pc = "idle"
  /\ ret' \in safe_move(safes, moves_made)
  /\ lastOp' = "make_safe_move"
  /\ UNCHANGED <<height, width, board, moves_made, mines, safes, knowledge,
                 pc, rounds, at_closure, nOps, args, truthful>>

possibleMoves_ignoring_mines(h, w, mi, mm) ==
  {c \in Cells(h, w) : c \notin mm}

possibleMoves(h, w, mi, mm) ==
  {c \in Cells(h, w) : c \notin mi /\ c \notin mm}

MakeRandomMove ==
  /\ pc = "idle"
  /\ LET pm == possibleMoves(height, width, mines, moves_made)
     IN  IF Cardinality(pm) = 0 THEN ret' = None ELSE ret' \in pm
  /\ lastOp' = "make_random_move"
  /\ UNCHANGED <<height, width, board, moves_made, mines, safes, knowledge,
                 pc, rounds, at_closure, nOps, args, truthful>>

\* ---------------------------------------------------------------- specifications
\* every method of the agent, called with any arguments; no board is attached
Next ==
  \/ Observe
  \/ ClosureRound
  \/ MarkMine
  \/ MarkSafe
  \/ MakeSafeMove
  \/ MakeRandomMove

Spec == Init /\ [][Next]_vars

\* a game on a board with mines in which add_knowledge is called with any
\* in-bounds cell and any count
NextGame ==
  \/ Observe
  \/ ClosureRound

SpecGame == InitGame /\ [][NextGame]_vars

\* a game: add_knowledge is only called truthfully
NextTruthful ==
  \/ ObserveTruthful
  \/ ClosureRound
  \/ MakeSafeMove
  \/ MakeRandomMove

SpecTruthful == InitGame /\ [][NextTruthful]_vars

\* the end-to-end scenario: a 3x3 board with its single mine at (0,0); the
\* first two calls are add_knowledge((1,1), 1) and add_knowledge((0,2), 0),
\* the counts nearby_mines reports; the game then goes on truthfully
InitScenario ==
  /\ height = 3
  /\ width = 3
  /\ board = {<<0, 0>>}
  /\ moves_made = {}
  /\ mines = {}
  /\ safes = {}
  /\ knowledge = <<>>
  /\ pc = "idle"
  /\ rounds = 0
  /\ at_closure = <<>>
  /\ lastOp = "init"
  /\ ret = None
  /\ nOps = 0
  /\ args = <<>>
  /\ truthful = TRUE

ObserveScenario ==
  \E cell \in Cells(height, width) :
    /\ nOps < MaxObs
    /\ cell \notin board
    /\ nOps = 0 => cell = <<1, 1>>
    /\ nOps = 1 => cell = <<0, 2>>
    /\ AddKnowledge(cell, nearby_mines(board, height, width, cell))

NextScenario ==
  \/ ObserveScenario
  \/ ClosureRound
  \/ MakeSafeMove
  \/ MakeRandomMove

SpecScenario == InitScenario /\ [][NextScenario]_vars

\* the game loop that drives the agent: take make_safe_move, else
\* make_random_move, else stop; stop if the chosen cell is a mine; otherwise
\* call add_knowledge with the chosen cell and its true neighbour count
DriverSafe ==
  /\ lastOp \in {"init", "add_knowledge"}
  /\ MakeSafeMove

DriverRandom ==
  /\ lastOp = "make_safe_move"
  /\ ret = None
  /\ MakeRandomMove

DriverObserve ==
  /\ lastOp \in {"make_safe_move", "make_random_move"}
  /\ ret # None
  /\ ret \notin board
  /\ AddKnowledge(ret, nearby_mines(board, height, width, ret))

NextDriver ==
  \/ DriverSafe
  \/ DriverRandom
  \/ DriverObserve
  \/ ClosureRound

\* the loop keeps running while it has a step to take
SpecDriver == InitGame /\ [][NextDriver]_vars /\ WF_vars(NextDriver)

\* the loop has stopped: no move is left, or the chosen cell is a mine
GameOver ==
  /\ pc = "idle"
  /\ \/ lastOp = "make_random_move" /\ ret = None
     \/ /\ lastOp \in {"make_safe_move", "make_random_move"}
        /\ ret # None
        /\ ret \in board

\* ---------------------------------------------------------------- properties
\* the knowledge base as one value
Now == KB(mines, safes, knowledge)

Distinct(kn) == \A i, j \in 1 .. Len(kn) : i # j => kn[i] # kn[j]

\* a sentence with the cells resolved so far taken out of it
Resolved(s) ==
  Sentence(s.cells \ (safes \cup mines),
           s.count - Cardinality(s.cells \cap mines))

\* C1: in a game where every add_knowledge call is truthful, between calls
\* every cell of mines is a mine of the board and no cell of safes is, so a
\* cell returned by make_safe_move is never a mine.
C1_Soundness ==
  pc = "idle" =>
    /\ mines \subseteq board
    /\ safes \cap board = {}
    /\ (lastOp = "make_safe_move" /\ ret # None => ret \notin board)

C1_Witness ==
  /\ pc = "idle"
  /\ lastOp = "make_safe_move"
  /\ ret # None
  /\ mines # {}
  /\ Len(knowledge) >= 2

\* C2 as stated: after any sequence of add_knowledge calls, safes and mines
\* are disjoint.
C2_Original ==
  pc = "idle" => safes \cap mines = {}

\* C2 amended: after any sequence of truthful add_knowledge calls, safes and
\* mines are disjoint.
C2_DisjointWhenTruthful ==
  (pc = "idle" /\ truthful) => safes \cap mines = {}

C2_Witness ==
  /\ pc = "idle"
  /\ truthful
  /\ lastOp = "add_knowledge"
  /\ nOps >= 2
  /\ mines # {}
  /\ safes \ moves_made # {}

\* C3: after every completed add_knowledge, mark_mine and mark_safe, no
\* sentence of knowledge contains a cell of mines or of safes.
C3_NoResolvedCell ==
  pc = "idle" =>
    \A i \in 1 .. Len(knowledge) :
      knowledge[i].cells \cap (mines \cup safes) = {}

C3_Witness ==
  /\ pc = "idle"
  /\ lastOp = "add_knowledge"
  /\ Len(knowledge) > nOps
  /\ mines # {}
  /\ safes \ moves_made # {}
  /\ \E i \in 1 .. Len(knowledge) : knowledge[i].cells # {}

\* C4: for any two different sentences A, B that knowledge holds when the
\* while loop is entered, with B.cells a subset of A.cells, knowledge holds
\* (A.cells - B.cells, A.count - B.count), or that sentence with the resolved
\* cells taken out, when add_knowledge returns.
C4_SubsetInference ==
  (pc = "idle" /\ lastOp = "add_knowledge") =>
    \A i, j \in 1 .. Len(at_closure) :
      LET A == at_closure[i]
          B == at_closure[j]
          D == Sentence(A.cells \ B.cells, A.count - B.count)
      IN  (A # B /\ B.cells \subseteq A.cells) =>
            (InKnowledge(D, knowledge) \/ InKnowledge(Resolved(D), knowledge))

\* C5: the while loop of add_knowledge ends: an iteration that does not break
\* adds a cell to safes or mines that was in neither, and the loop makes at
\* most height * width + 1 iterations.
C5_Termination ==
  /\ [](rounds <= height * width + 1)
  /\ [][(pc = "closure" /\ pc' = "closure") =>
          \E c \in (safes' \cup mines') : c \notin (safes \cup mines)]_vars

C5_Witness ==
  /\ pc = "idle"
  /\ lastOp = "add_knowledge"
  /\ rounds >= 3

\* C6: when add_knowledge returns, no sentence has a known safe or a known
\* mine, and running the while loop again changes nothing.
C6_FixedPoint ==
  (pc = "idle" /\ lastOp = "add_knowledge") =>
    /\ \A i \in 1 .. Len(knowledge) :
         known_safes(knowledge[i]) = {} /\ known_mines(knowledge[i]) = {}
    /\ Closure(Now) = Now

C6_Witness ==
  /\ pc = "idle"
  /\ lastOp = "add_knowledge"
  /\ rounds >= 2
  /\ mines # {}
  /\ \E i \in 1 .. Len(knowledge) : Cardinality(knowledge[i].cells) >= 2

\* C7: between calls, knowledge holds no two equal sentences.
C7_NoDuplicates ==
  pc = "idle" => Distinct(knowledge)

\* C8: no step removes a cell from mines, safes or moves_made, and none
\* makes the list knowledge shorter.
C8_Monotone ==
  [][/\ mines \subseteq mines'
     /\ safes \subseteq safes'
     /\ moves_made \subseteq moves_made'
     /\ Len(knowledge') >= Len(knowledge)]_vars

C8_Witness ==
  /\ pc = "idle"
  /\ lastOp = "mark_mine"
  /\ mines \cap safes # {}
  /\ moves_made # {}
  /\ Len(knowledge) >= 2

\* C9: make_safe_move returns a cell of safes that is not in moves_made when
\* there is one, and None exactly when there is none.
C9_SafeMove ==
  lastOp = "make_safe_move" =>
    /\ (ret = None <=> safes \ moves_made = {})
    /\ (ret # None => ret \in safes /\ ret \notin moves_made)

C9_Witness ==
  /\ lastOp = "make_safe_move"
  /\ ret # None
  /\ safes \cap moves_made # {}

\* C10: make_random_move returns an in-bounds cell that is in neither mines
\* nor moves_made, and None exactly when mines and moves_made cover the board.
C10_RandomMove ==
  lastOp = "make_random_move" =>
    /\ (ret = None <=> Cells(height, width) \subseteq (mines \cup moves_made))
    /\ (ret # None =>
          /\ InBounds(ret, height, width)
          /\ ret \notin mines
          /\ ret \notin moves_made)

C10_Witness ==
  /\ lastOp = "make_random_move"
  /\ ret # None
  /\ mines # {}
  /\ moves_made # {}

\* C11: a call of make_safe_move or make_random_move leaves moves_made,
\* safes, mines and every sentence of knowledge as they were.
C11_MovesDoNotMutate ==
  [][lastOp' \in {"make_safe_move", "make_random_move"} =>
       UNCHANGED <<moves_made, safes, mines, knowledge>>]_vars

C11_Witness ==
  /\ lastOp = "make_safe_move"
  /\ ret # None
  /\ mines # {}
  /\ \E i \in 1 .. Len(knowledge) : knowledge[i].cells # {}

\* C12 as stated: on the 3x3 board with the mine at (0,0), after
\* add_knowledge((1,1), 1) knowledge holds {(0,0),(0,1),(1,0)} = 1 and only
\* (1,1) is resolved; after add_knowledge((0,2), 0), (0,1) is safe, the first
\* sentence is {(0,0),(1,0)} = 1 and (0,0), (1,0) are in neither set.
C12_Original ==
  /\ (pc = "idle" /\ nOps = 1) =>
       /\ InKnowledge(Sentence({<<0, 0>>, <<0, 1>>, <<1, 0>>}, 1), knowledge)
       /\ safes = {<<1, 1>>}
       /\ mines = {}
  /\ (pc = "idle" /\ nOps = 2) =>
       /\ <<0, 1>> \in safes
       /\ knowledge[1] = Sentence({<<0, 0>>, <<1, 0>>}, 1)
       /\ {<<0, 0>>, <<1, 0>>} \cap (mines \cup safes) = {}

\* C12 amended: after add_knowledge((1,1), 1) knowledge is the one sentence
\* "the eight other cells = 1" and only (1,1) is resolved; after
\* add_knowledge((0,2), 0), (0,1) and (1,2) are safe, the first sentence is
\* {(0,0),(1,0),(2,0),(2,1),(2,2)} = 1 and none of its cells is resolved.
C12_Scenario ==
  /\ (pc = "idle" /\ nOps = 1) =>
       /\ knowledge = <<Sentence(Cells(3, 3) \ {<<1, 1>>}, 1)>>
       /\ safes = {<<1, 1>>}
       /\ mines = {}
  /\ (pc = "idle" /\ nOps = 2) =>
       /\ safes = {<<1, 1>>, <<0, 2>>, <<0, 1>>, <<1, 2>>}
       /\ mines = {}
       /\ knowledge[1] =
            Sentence({<<0, 0>>, <<1, 0>>, <<2, 0>>, <<2, 1>>, <<2, 2>>}, 1)
       /\ knowledge[1].cells \cap (mines \cup safes) = {}

C12_Witness ==
  /\ pc = "idle"
  /\ nOps = 2
  /\ moves_made = {<<1, 1>>, <<0, 2>>}
  /\ rounds = 2

\* C14: mark_mine and mark_safe are idempotent: a second call with the same
\* cell changes nothing, so a count is decremented once per mine cell.
C14_MarkIdempotent ==
  pc = "idle" =>
    \A cell \in Cells(height, width) :
      /\ mark_mine(mark_mine(Now, cell), cell) = mark_mine(Now, cell)
      /\ mark_safe(mark_safe(Now, cell), cell) = mark_safe(Now, cell)

C14_Witness ==
  /\ pc = "idle"
  /\ lastOp = "mark_mine"
  /\ \E i \in 1 .. Len(knowledge) : knowledge[i].cells # {}
  /\ \E i \in 1 .. Len(knowledge) :
       Len(at_closure) >= i /\ knowledge[i].count < at_closure[i].count

\* C15: known_mines is the whole cell set when |cells| = count # 0 and empty
\* otherwise; known_safes is the whole cell set when count = 0 and empty
\* otherwise; the two are never both non-empty.
C15_KnownSets ==
  \A i \in 1 .. Len(knowledge) :
    LET s == knowledge[i]
    IN  /\ (Cardinality(s.cells) = s.count /\ s.count # 0) => known_mines(s) = s.cells
        /\ ~(Cardinality(s.cells) = s.count /\ s.count # 0) => known_mines(s) = {}
        /\ s.count = 0 => known_safes(s) = s.cells
        /\ s.count # 0 => known_safes(s) = {}
        /\ known_mines(s) = {} \/ known_safes(s) = {}

C15_Witness ==
  /\ pc = "closure"
  /\ \E i \in 1 .. Len(knowledge) : known_mines(knowledge[i]) # {}
  /\ \E i \in 1 .. Len(knowledge) : known_safes(knowledge[i]) # {}
  /\ \E i \in 1 .. Len(knowledge) : knowledge[i].count < 0

\* the in-bounds neighbours of cell, cell itself left out
Neighbours(cell) ==
  {c \in Cells(height, width) : c # cell /\ c \in Block(cell)}

\* C16: add_knowledge called with a count below the number of neighbours
\* already in mines appends a sentence with a negative count; a sentence with
\* a negative count yields no known safe and no known mine, and it stays in
\* knowledge with a negative count.
C16_NegativeCount ==
  /\ []((pc = "closure" /\ rounds = 0 /\
          args[2] < Cardinality(Neighbours(args[1]) \cap mines)) =>
            knowledge[Len(knowledge)].count < 0)
  /\ [](\A i \in 1 .. Len(knowledge) :
          knowledge[i].count < 0 =>
            known_safes(knowledge[i]) = {} /\ known_mines(knowledge[i]) = {})
  /\ [][\A i \in 1 .. Len(knowledge) :
          knowledge[i].count < 0 =>
            Len(knowledge') >= i /\ knowledge'[i].count < 0]_vars

C16_Witness ==
  /\ pc = "idle"
  /\ lastOp = "add_knowledge"
  /\ args[2] < Cardinality(Neighbours(args[1]) \cap mines)
  /\ knowledge[Len(knowledge)].count < 0
  /\ knowledge[Len(knowledge)].cells # {}

\* C17: the sentence add_knowledge(cell, count) appends is (U, count - k),
\* U the in-bounds neighbours of cell in neither safes nor mines, k the number
\* of neighbours of cell in mines.
C17_NewSentence ==
  (pc = "closure" /\ rounds = 0) =>
    knowledge[Len(knowledge)] =
      Sentence(Neighbours(args[1]) \ (safes \cup mines),
               args[2] - Cardinality(Neighbours(args[1]) \cap mines))

\* C18: in a game where every add_knowledge call is truthful, the count of
\* every sentence is the number of mines of the board among its cells.
C18_SentencesTrue ==
  \A i \in 1 .. Len(knowledge) :
    /\ knowledge[i].count = Cardinality(knowledge[i].cells \cap board)
    /\ 0 <= knowledge[i].count
    /\ knowledge[i].count <= Cardinality(knowledge[i].cells)

C18_Witness ==
  /\ pc = "idle"
  /\ mines # {}
  /\ Len(knowledge) >= 3
  /\ \E i \in 1 .. Len(knowledge) :
       knowledge[i].count >= 1 /\ Cardinality(knowledge[i].cells) >= 2

\* C20: every cell of moves_made is in safes.
C20_MovesAreSafe ==
  moves_made \subseteq safes

C20_Witness ==
  /\ pc = "idle"
  /\ lastOp = "add_knowledge"
  /\ Cardinality(moves_made) >= 2
  /\ safes \ moves_made # {}

\* C19: under the game loop, add_knowledge is never called for a cell already
\* in moves_made nor for a cell in mines, each call adds exactly one cell to
\* moves_made, there are at most height * width calls, and the loop stops.
C19_GameLoop ==
  /\ [][(pc = "idle" /\ pc' = "closure") =>
          /\ args'[1] \notin moves_made
          /\ args'[1] \notin mines
          /\ moves_made' = moves_made \cup {args'[1]}
          /\ Cardinality(moves_made') = Cardinality(moves_made) + 1]_vars
  /\ [](nOps = Cardinality(moves_made) /\ nOps <= height * width)
  /\ <>GameOver

C19_Witness ==
  /\ GameOver
  /\ lastOp = "make_random_move"
  /\ ret = None
  /\ board # {}
  /\ mines = board
  /\ nOps >= 3

\* ---------------------------------------------------------------- C13
\* the sentences of kn as a multiset: each (cells, count) pair with the
\* number of times it occurs in the list
SentenceBag(kn) ==
  [s \in {kn[i] : i \in 1 .. Len(kn)} |->
     Cardinality({i \in 1 .. Len(kn) : kn[i] = s})]

\* what the claim compares: safes, mines and the multiset of sentences
Outcome(kb) ==
  [mines |-> kb.mines, safes |-> kb.safes, sentences |-> SentenceBag(kb.knowledge)]

\* C13: at the entry of the while loop of add_knowledge (the prior state
\* and (cell, count) are then fixed), whatever order each iteration visits
\* the sentences, the cells of new_safes and the cells of new_mines in, the
\* loop exits with the same safes, the same mines and the same multiset of
\* sentences: the ones the model's own traversal order ends with.
C13_OrderIndependent ==
  (pc = "closure" /\ rounds = 0) =>
     {Outcome(kb) : kb \in LoopResults({Now})} = {Outcome(Closure(Now))}

\* a call whose first iteration marks at least two safes and a mine and
\* whose loop infers sentences: the orders leave different lists of
\* sentences, which are the same multiset
C13_Witness ==
  /\ pc = "closure"
  /\ rounds = 0
  /\ Cardinality(new_safes_of(knowledge)) >= 2
  /\ new_mines_of(knowledge) # {}
  /\ Len(knowledge) >= 2
  /\ Len(Closure(Now).knowledge) > Len(knowledge)
  /\ Cardinality(LoopResults({Now})) >= 2
====
